---------------------------- MODULE Spec2Model ----------------------------
(***************************************************************************)
(* Model of app.py (pencil-app): the /upload and /merge handlers of the    *)
(* Flask application, with the corridor compositing pipeline of merge()    *)
(* taken stage by stage.                                                   *)
(*                                                                         *)
(* Conventions                                                             *)
(*   - a point is a pair <<x, y>> of integers in image space;              *)
(*   - a raster is a record [w, h, px] with px[x][y] the pixel of column   *)
(*     x in 0..w-1 and row y in 0..h-1; an "L" pixel is 0..255, an "RGB"   *)
(*     pixel a triple and an "RGBA" pixel a 4-tuple of 0..255;             *)
(*   - outside_fade and marker_alpha are carried in tenths (8 = 0.8);      *)
(*   - the Pillow primitives the handler calls (ImageDraw.line, .ellipse,  *)
(*     Image.resize(LANCZOS), blend, paste, composite, alpha_composite)    *)
(*     are operators computing what the library computes on 8-bit data.    *)
(***************************************************************************)
EXTENDS Integers, Sequences, FiniteSets

\* ------------------------------------------------------------- arithmetic

Max(a, b) == IF a >= b THEN a ELSE b

Min(a, b) == IF a <= b THEN a ELSE b

Abs(a) == IF a < 0 THEN -a ELSE a

\* (int) conversion of the rational n/d, d > 0: truncation toward zero.
TruncDiv(n, d) == IF n >= 0 THEN n \div d ELSE -((-n) \div d)

\* Python's round() of the rational n/d, d > 0, n >= 0: half to even.
RoundHalfEven(n, d) ==
    LET q == n \div d
        r == n % d
    IN  IF 2 * r < d THEN q
        ELSE IF 2 * r > d THEN q + 1
        ELSE IF q % 2 = 0 THEN q ELSE q + 1

RECURSIVE ISqrtFrom(_, _)
ISqrtFrom(n, k) == IF (k + 1) * (k + 1) > n THEN k ELSE ISqrtFrom(n, k + 1)

\* floor(sqrt(n)), n >= 0
ISqrt(n) == ISqrtFrom(n, 0)

Clip8(v) == IF v < 0 THEN 0 ELSE IF v > 255 THEN 255 ELSE v

\* SHIFTFORDIV255 and DIV255 of Pillow's ImagingUtils.h: division by 255,
\* rounded once 128 is added.
SHIFTFORDIV255(a) == ((a \div 256) + a) \div 256

DIV255(a) == SHIFTFORDIV255(a + 128)

\* BLEND8(mask, in1, in2): in1 where mask = 0, in2 where mask = 255.
BLEND8(mask, in1, in2) == DIV255(in1 * (255 - mask) + in2 * mask)

\* ---------------------------------------------------------------- rasters

Pixels(w, h) == (0 .. w - 1) \X (0 .. h - 1)

\* The raster of size (w, h) whose pixel <<x, y>> is F(<<x, y>>).
Raster(w, h, F(_)) ==
    [w |-> w, h |-> h,
     px |-> [x \in 0 .. w - 1 |-> [y \in 0 .. h - 1 |-> F(<<x, y>>)]]]

\* The pixel of img at p = <<x, y>>.
At(img, p) == img.px[p[1]][p[2]]

\* Image.new(mode, (w, h), v)
NewImage(w, h, v) == Raster(w, h, LAMBDA p : v)

\* Squared length of b - a, dot and cross products with it.
Len2(a, b) == (b[1] - a[1]) * (b[1] - a[1]) + (b[2] - a[2]) * (b[2] - a[2])

Dot(p, a, b) == (p[1] - a[1]) * (b[1] - a[1]) + (p[2] - a[2]) * (b[2] - a[2])

Cross(p, a, b) == (p[1] - a[1]) * (b[2] - a[2]) - (p[2] - a[2]) * (b[1] - a[1])

\* ROUND_UP and ROUND_DOWN of Pillow's Draw.c applied to the magnitude
\* m / (2 * sqrt(n2)), m >= 0, n2 > 0: floor(f + 0.5) and ceil(f - 0.5).
RECURSIVE RoundUpFrom(_, _, _)
RoundUpFrom(m, n2, k) ==
    IF (2 * k + 1) * (2 * k + 1) * n2 <= m * m
    THEN RoundUpFrom(m, n2, k + 1) ELSE k

ROUND_UP(m, n2) == RoundUpFrom(m, n2, 0)

RECURSIVE RoundDownFrom(_, _, _)
RoundDownFrom(m, n2, k) ==
    IF (2 * k + 1) * (2 * k + 1) * n2 >= m * m
    THEN k ELSE RoundDownFrom(m, n2, k + 1)

ROUND_DOWN(m, n2) == RoundDownFrom(m, n2, 0)

Sign(a) == IF a > 0 THEN 1 ELSE IF a < 0 THEN -1 ELSE 0

\* The four vertices ImagingDrawWideLine gives the stroke from a to b # a:
\* the ends moved by (width - 1) / 2 across the direction, each component
\* rounded down on one side and up on the other.
WideLineVertices(a, b, width) ==
    LET dx == b[1] - a[1]
        dy == b[2] - a[2]
        n2 == dx * dx + dy * dy
        dxmin == Sign(dy) * ROUND_DOWN((width - 1) * Abs(dy), n2)
        dxmax == Sign(dy) * ROUND_UP((width - 1) * Abs(dy), n2)
        dymin == Sign(dx) * ROUND_DOWN((width - 1) * Abs(dx), n2)
        dymax == Sign(dx) * ROUND_UP((width - 1) * Abs(dx), n2)
    IN  << <<a[1] - dxmin, a[2] + dymax>>,
           <<b[1] - dxmin, b[2] + dymax>>,
           <<b[1] + dxmax, b[2] - dymin>>,
           <<a[1] + dxmax, a[2] - dymin>> >>

\* Pixel p lies in the convex quadrilateral v (its edges included).
InPolygon(p, v) ==
    LET c1 == Cross(p, v[1], v[2])
        c2 == Cross(p, v[2], v[3])
        c3 == Cross(p, v[3], v[4])
        c4 == Cross(p, v[4], v[1])
    IN  \/ c1 >= 0 /\ c2 >= 0 /\ c3 >= 0 /\ c4 >= 0
        \/ c1 <= 0 /\ c2 <= 0 /\ c3 <= 0 /\ c4 <= 0

\* The shape ImageDraw draws for the stroke from a to b of the given width:
\* a width of 0 or 1 is the one-pixel line through the pixels nearest the
\* segment, a wider stroke is the filled polygon of ImagingDrawWideLine, and
\* a segment of no length is the single point.
StrokeShape(a, b, width) ==
    IF a = b THEN [kind |-> "point", a |-> a]
    ELSE IF width <= 1 THEN [kind |-> "thin", a |-> a, b |-> b]
    ELSE [kind |-> "polygon", v |-> WideLineVertices(a, b, width)]

\* Pixel p lies on the shape.
OnShape(p, sh) ==
    IF sh.kind = "point" THEN p = sh.a
    ELSE IF sh.kind = "thin"
    THEN /\ Dot(p, sh.a, sh.b) >= 0
         /\ Dot(p, sh.a, sh.b) <= Len2(sh.a, sh.b)
         /\ 2 * Abs(Cross(p, sh.a, sh.b))
                <= Max(Abs(sh.b[1] - sh.a[1]), Abs(sh.b[2] - sh.a[2]))
    ELSE InPolygon(p, sh.v)

\* Pixel p lies in the filled ellipse of bounding box [c - r, c + r]^2.
InDisk(p, c, r) == Len2(p, c) <= r * r

\* ImageDraw.line(pts, fill, width, joint="curve") when curve, and without
\* joint= otherwise: every segment stroked, and, for a curve joint and
\* width > 4, the pieslice of radius width / 2 - 1 that rounds the joint at
\* every inner vertex.
DrawLine(img, pts, fill, width, curve) ==
    LET shapes == [i \in 1 .. Len(pts) - 1 |->
                      StrokeShape(pts[i], pts[i + 1], width)]
    IN  Raster(img.w, img.h,
               LAMBDA p :
                   IF \/ \E i \in 1 .. Len(pts) - 1 : OnShape(p, shapes[i])
                      \/ /\ curve
                         /\ width > 4
                         /\ \E i \in 2 .. Len(pts) - 1 :
                               4 * Len2(p, pts[i]) <= (width - 2) * (width - 2)
                   THEN fill ELSE At(img, p))

\* ImageDraw.ellipse([cx - r, cy - r, cx + r, cy + r], fill=fill)
DrawDisk(img, c, r, fill) ==
    Raster(img.w, img.h,
           LAMBDA p : IF InDisk(p, c, r) THEN fill ELSE At(img, p))

\* ------------------------------------------------- Image.resize (LANCZOS)

\* app.py fixes the supersampling factor.
scale == 2

\* The Lanczos-3 kernel sampled where Pillow's precompute_coeffs samples it
\* for a reduction by 2: the taps 2*xx-5 .. 2*xx+6 of output pixel xx, at
\* the offsets -2.75, -2.25, ..., 2.75, in units of 2^-20.
LanczosTaps ==
    << 7713, 31479, -71084, -139325, 283315, 933303,
       933303, 283315, -139325, -71084, 31479, 7713 >>

\* The sum over the taps x .. xmax-1 of tap weight times sample, where tap
\* x has weight LanczosTaps[x - first + 1].
RECURSIVE TapSum(_, _, _, _)
TapSum(vals, first, x, xmax) ==
    IF x >= xmax THEN 0
    ELSE LanczosTaps[x - first + 1] * vals[x] + TapSum(vals, first, x + 1, xmax)

RECURSIVE TapWeight(_, _, _)
TapWeight(first, x, xmax) ==
    IF x >= xmax THEN 0
    ELSE LanczosTaps[x - first + 1] + TapWeight(first, x + 1, xmax)

\* One output sample of a resampling pass over the input samples
\* vals[0 .. inSize-1]. The taps that fall outside the input are dropped and
\* the rest renormalised, then the sum is rounded and clipped to 8 bits.
Resample(vals, inSize, xx) ==
    LET first == scale * xx - 5
        xmin  == Max(0, first)
        xmax  == Min(inSize, scale * xx + 7)
        ww    == TapWeight(first, xmin, xmax)
        ss    == TapSum(vals, first, xmin, xmax)
    IN  Clip8((2 * ss + ww) \div (2 * ww))

\* A resize that returns its input: the supersampled raster, never reduced.
ResizeNone(img, w, h) == img

\* img.resize((w, h), Image.LANCZOS) of an "L" raster of size
\* (w * scale, h * scale): the horizontal pass, then the vertical pass.
Resize(img, w, h) ==
    LET rows  == [y \in 0 .. img.h - 1 |->
                    [i \in 0 .. img.w - 1 |-> img.px[i][y]]]
        horiz == [x \in 0 .. w - 1 |-> [y \in 0 .. img.h - 1 |->
                    Resample(rows[y], img.w, x)]]
    IN  Raster(w, h, LAMBDA p : Resample(horiz[p[1]], img.h, p[2]))

\* ------------------------------------------------------------ compositing

WHITE == <<255, 255, 255>>

PURPLE_RGBA_OPAQUE == <<128, 0, 255, 255>>

TRANSPARENT == <<0, 0, 0, 0>>

\* A blend with its two images taken in the wrong order.
BlendChannelSwapped(in1, in2, fade) ==
    TruncDiv(in2 * 10 + fade * (in1 - in2), 10)

\* Image.blend(im1, im2, alpha) with alpha = fade / 10 in [0, 1]:
\* in1 + alpha * (in2 - in1), converted to 8 bits by truncation.
BlendChannel(in1, in2, fade) == TruncDiv(in1 * 10 + fade * (in2 - in1), 10)

Blend(im1, im2, fade) ==
    Raster(im1.w, im1.h,
           LAMBDA p : [ch \in 1 .. 3 |->
                          BlendChannel(At(im1, p)[ch], At(im2, p)[ch], fade)])

\* A paste that reads its mask inverted.
PasteInverted(dst, src, mask) ==
    [w |-> dst.w, h |-> dst.h,
     px |-> [x \in 0 .. dst.w - 1 |-> [y \in 0 .. dst.h - 1 |->
               [ch \in DOMAIN dst.px[x][y] |->
                   BLEND8(255 - mask.px[x][y], dst.px[x][y][ch],
                          src.px[x][y][ch])]]]]

\* dst.paste(src, mask=mask): per channel BLEND8(mask, dst, src).
Paste(dst, src, mask) ==
    Raster(dst.w, dst.h,
           LAMBDA p : [ch \in DOMAIN At(dst, p) |->
                          BLEND8(At(mask, p), At(dst, p)[ch], At(src, p)[ch])])

\* Image.composite(image1, image2, mask): image2 with image1 pasted under mask.
Composite(image1, image2, mask) == Paste(image2, image1, mask)

\* im.convert("RGBA") of an RGB raster: alpha 255.
ConvertRGBA(img) ==
    Raster(img.w, img.h,
           LAMBDA p : <<At(img, p)[1], At(img, p)[2], At(img, p)[3], 255>>)

\* Image.alpha_composite(dst, src): "over", with Pillow's fixed point.
AlphaOver(d, s) ==
    IF s[4] = 0 THEN d
    ELSE LET blend   == d[4] * (255 - s[4])
             outa255 == s[4] * 255 + blend
             coef1   == (s[4] * 255 * 255 * 128) \div outa255
             coef2   == 255 * 128 - coef1
             chan(i) == SHIFTFORDIV255(s[i] * coef1 + d[i] * coef2
                                           + 128 * 128) \div 128
         IN  <<chan(1), chan(2), chan(3), SHIFTFORDIV255(outa255 + 128)>>

AlphaComposite(dst, src) ==
    Raster(dst.w, dst.h, LAMBDA p : AlphaOver(At(dst, p), At(src, p)))

\* ----------------------------------------------------------------- bounds

\* Size of the images a client uploads.
ImgW == 16

ImgH == 2

\* Number of uploads a behaviour may hold.
MaxUploads == 1

\* ------------------------------------------------------- values and inputs

\* JSON values of the request body: null (or absent), a number, a string.
JNull == [t |-> "null"]

JNum(v) == [t |-> "num", v |-> v]

JStr == [t |-> "str"]

\* The JSON string naming stored file i.
JName(i) == [t |-> "name", v |-> i]

\* A local of merge() not assigned yet, and an empty slot of the upload
\* directory.
Unset == [t |-> "unset"]

NoFile == [kind |-> "none"]

ALLOWED_EXTS == {".png", ".jpg", ".jpeg", ".webp", ".tif", ".tiff"}

\* What a client may send as the file of an upload: a decodable image, an
\* image whose header parses and whose pixel data is cut short, and bytes
\* that are no image.
Contents ==
    { [kind |-> "image", w |-> ImgW, h |-> ImgH],
      [kind |-> "truncated", w |-> ImgW, h |-> ImgH],
      [kind |-> "garbage", w |-> 0, h |-> 0] }

\* The upload forms: no file part, an empty filename, or a named file.
UploadForms ==
    { [part |-> FALSE, filename |-> "", ext |-> "", content |-> NoFile],
      [part |-> TRUE, filename |-> "", ext |-> "", content |-> NoFile] }
    \cup { [part |-> TRUE, filename |-> "a" \o e, ext |-> e, content |-> c] :
              e \in {".png", ".txt"}, c \in Contents }

\* Names under UPLOAD_DIR.
Ids == 1 .. MaxUploads

\* The point lists of the merge requests.
Paths ==
    { <<>>,
      << <<2, 1>> >>,
      << <<-8, 1>>, <<22, 1>> >>,
      << <<1, 1>>, <<11, 1>> >>,
      << <<2, 1>>, <<3, 1>> >>,
      << <<5, 1>>, <<5, 0>> >>,
      << <<5, 0>>, <<5, 0>> >>,
      << <<2, 0>>, <<6, 0>>, <<4, 1>> >> }

\* corridor_px: absent, a string, and numbers.
Corridors == {JNull, JStr, JNum(-1), JNum(0), JNum(1), JNum(4), JNum(6)}

\* outside_fade and marker_alpha in tenths: absent, and numbers in and out
\* of [0, 1].
Fades == {JNull, JNum(12)}

Alphas == {JNull, JNum(-3)}

\* The JSON bodies of the merge requests; JNull is a body that is no JSON
\* object (or an empty one).
Requests ==
    {JNull} \cup
    [ t : {"obj"},
      image_id : {JNull} \cup {JName(i) : i \in Ids},
      points : Paths,
      corridor_px : Corridors,
      outside_fade : Fades,
      marker_alpha : Alphas ]

\* The pixels a stored image decodes to (base.convert("RGB")).
Decode(file) ==
    Raster(file.w, file.h,
           LAMBDA p : <<(40 + 9 * p[1] + 5 * p[2]) % 256,
                        (90 + 7 * p[1]) % 256,
                        (200 + 3 * p[2]) % 256>>)

\* ------------------------------------------------------------------ state

VARIABLES
    files,          \* UPLOAD_DIR: name -> stored file, or NoFile
    legacy,         \* the installed Pillow knows neither joint= nor width=
    pc,             \* position of the request handler
    data,           \* request.get_json(silent=True)
    image_id, points, corridor_px, outside_fade, marker_alpha,
    base, mask2, mask, out, ring2, ring_mask, purple_layer, out_final,
    resp            \* the response of the request being handled

locals ==
    <<image_id, points, corridor_px, outside_fade, marker_alpha,
      base, mask2, mask, out, ring2, ring_mask, purple_layer, out_final>>

vars == <<files, legacy, pc, data, locals, resp>>

Json(status, error) ==
    [status |-> status, kind |-> "json", error |-> error, body |-> Unset]

\* Flask's answer to an exception no handler of the view catches.
Unhandled == [status |-> 500, kind |-> "html", error |-> "", body |-> Unset]

Png(img) == [status |-> 200, kind |-> "png", error |-> "", body |-> img]

Init ==
    /\ files = [i \in Ids |-> NoFile]
    /\ legacy \in BOOLEAN
    /\ pc = "idle"
    /\ data = Unset
    /\ image_id = Unset /\ points = Unset /\ corridor_px = Unset
    /\ outside_fade = Unset /\ marker_alpha = Unset
    /\ base = Unset /\ mask2 = Unset /\ mask = Unset /\ out = Unset
    /\ ring2 = Unset /\ ring_mask = Unset /\ purple_layer = Unset
    /\ out_final = Unset
    /\ resp = Unset

\* ---------------------------------------------------------------- /upload

\* uuid.uuid4(): a name no stored file has.
FreshId == CHOOSE i \in Ids : files[i] = NoFile /\ \A j \in Ids : j < i => files[j] # NoFile

\* upload(): the form is checked, the file saved under a fresh name and
\* opened; a file Image.open rejects is unlinked again.
Upload ==
    /\ pc = "idle"
    /\ pc' = "done"
    /\ \E form \in UploadForms :
          IF ~form.part
          THEN /\ resp' = Json(400, "no file part")
               /\ files' = files
          ELSE IF form.filename = ""
          THEN /\ resp' = Json(400, "no selected file")
               /\ files' = files
          ELSE IF form.ext \notin ALLOWED_EXTS
          THEN /\ resp' = Json(400, "file type not allowed")
               /\ files' = files
          ELSE IF form.content.kind = "garbage"
          THEN /\ resp' = Json(400, "invalid image")
               /\ files' = files
          ELSE /\ \E i \in Ids : files[i] = NoFile
               /\ resp' = [status |-> 200, kind |-> "json",
                                  image_id |-> FreshId,
                                  width |-> form.content.w,
                                  height |-> form.content.h]
               /\ files' = [files EXCEPT ![FreshId] = form.content]
    /\ UNCHANGED <<legacy, data, locals>>

\* ----------------------------------------------------------------- /merge

\* Lines 106-109, 128, 146, 152, 184, 194: the widths and radii of a
\* corridor of radius c > 0.
stroke_w2(c) == Max(1, c * 2 * scale)

EDGE_THICKNESS_PX(c) == Max(2, c \div 2)

edge_w2(c) == Max(1, EDGE_THICKNESS_PX(c) * 2 * scale)

r_in(c) == stroke_w2(c) \div 2

outer_w2(c) == stroke_w2(c) + edge_w2(c)

r_out(c) == outer_w2(c) \div 2

MARKER_STROKE_PX(c) == Max(2, (6 * c) \div 10)

\* The width handed to pd.line and pd.ellipse.
marker_width(c) == MARKER_STROKE_PX(c) \div 3

end_r(c) == (9 * c) \div 10

\* PURPLE_RGBA_MARKER for marker_alpha = a / 10.
PURPLE_RGBA_MARKER(a) == <<128, 0, 255, RoundHalfEven(a * 255, 10)>>

\* float(v if v is not None else dflt), clamped to [0, 1] (in tenths).
Clamped(v, dflt) == Max(0, Min(10, IF v.t = "null" THEN dflt ELSE v.v))

\* pts2: the points at the supersampled resolution.
pts2(pts) == [i \in 1 .. Len(pts) |-> <<pts[i][1] * scale, pts[i][2] * scale>>]

\* The stroke of the path with its two end caps, on a supersampled raster:
\* d.line(pts2, fill, width, joint="curve") (without joint= on a Pillow
\* that does not know it), then the two d.ellipse calls of radius r.
DrawCorridor(img, pts, fill, width, r) ==
    LET q == pts2(pts)
    IN  DrawDisk(DrawDisk(DrawLine(img, q, fill, width, ~legacy),
                          q[1], r, fill),
                 q[Len(q)], r, fill)

\* math.hypot(vx, vy) or 1.0, carried as its square.
norm2(vx, vy) == IF vx * vx + vy * vy = 0 THEN 1 ELSE vx * vx + vy * vy

\* (int)(p + (s / norm) * (k / 10)): the coordinate the drawing call makes
\* of p plus the component s / norm of the direction scaled by k / 10, where
\* norm is the square root of n2.
MarkerCoord(p, s, k, n2) ==
    LET a  == (s * k) * (s * k)
        b  == 100 * n2
        fl == ISqrt(a \div b)
        ce == IF fl * fl * b = a THEN fl ELSE fl + 1
    IN  IF s >= 0
        THEN IF p + fl >= 0 THEN p + fl ELSE p + ce
        ELSE IF p - ce >= 0 THEN p - ce ELSE p - fl

\* triangle_path = [tip, left, right, tip] for the first two points and the
\* corridor radius c: u = (vx, vy) / norm, perpendicular (-uy, ux),
\* tri_height = tri_base = 1.6 * c.
triangle_path(p0, p1, c) ==
    LET vx == p1[1] - p0[1]
        vy == p1[2] - p0[2]
        n2 == norm2(vx, vy)
        tip   == <<MarkerCoord(p0[1], vx, 16 * c, n2),
                   MarkerCoord(p0[2], vy, 16 * c, n2)>>
        left  == <<MarkerCoord(p0[1], -vy, 8 * c, n2),
                   MarkerCoord(p0[2], vx, 8 * c, n2)>>
        right == <<MarkerCoord(p0[1], vy, 8 * c, n2),
                   MarkerCoord(p0[2], -vx, 8 * c, n2)>>
    IN  <<tip, left, right, tip>>

\* Pixel p lies on the outline of the given width of the circle of radius r
\* about c (the outline grows inward from the bounding box).
OnOutline(p, c, r, width) ==
    /\ Len2(p, c) <= r * r
    /\ \/ r - width < 0
       \/ Len2(p, c) > (r - width) * (r - width)

\* pd.ellipse(bbox, outline=ink, width=width): Pillow draws no outline of
\* width 0.
DrawOutline(img, c, r, ink, width) ==
    IF width = 0 THEN img
    ELSE Raster(img.w, img.h,
                LAMBDA p : IF OnOutline(p, c, r, width) THEN ink ELSE At(img, p))

\* Lines 186-205: the start triangle and the end circle drawn on the layer.
\* On a Pillow without joint= and width= the triangle is stroked with
\* MARKER_STROKE_PX and the circle is MARKER_STROKE_PX one-pixel outlines,
\* outline k inset by -k / 2.
DrawMarkers(layer, pts, c, alpha) ==
    LET ink == PURPLE_RGBA_MARKER(alpha)
        tri == triangle_path(pts[1], pts[2], c)
        pe  == pts[Len(pts)]
    IN  IF legacy
        THEN LET lined == DrawLine(layer, tri, ink, MARKER_STROKE_PX(c), FALSE)
             IN  Raster(lined.w, lined.h,
                        LAMBDA p : IF \E k \in 0 .. MARKER_STROKE_PX(c) - 1 :
                                         OnOutline(p, pe, end_r(c) + k \div 2, 1)
                                   THEN ink ELSE At(lined, p))
        ELSE DrawOutline(DrawLine(layer, tri, ink, marker_width(c), TRUE),
                         pe, end_r(c), ink, marker_width(c))

\* The drawing locals, untouched by the steps before the try block.
buffers ==
    <<base, mask2, mask, out, ring2, ring_mask, purple_layer, out_final>>

params == <<image_id, points, corridor_px, outside_fade, marker_alpha>>

\* Lines 75-95: the body is read and checked. int() and float() of a string
\* raise outside the try block; a missing image_id, no points or a radius
\* <= 0 is answered 400, a name with no file 404.
MergeBegin ==
    /\ pc = "idle"
    /\ \E d \in Requests :
          /\ data' = d
          /\ IF d = JNull
             THEN /\ resp' = Json(400, "invalid JSON")
                  /\ pc' = "done"
                  /\ UNCHANGED params
             ELSE IF d.corridor_px.t = "str"
             THEN /\ resp' = Unhandled
                  /\ pc' = "done"
                  /\ image_id' = d.image_id
                  /\ points' = d.points
                  /\ UNCHANGED <<corridor_px, outside_fade, marker_alpha>>
             ELSE /\ image_id' = d.image_id
                  /\ points' = d.points
                  /\ corridor_px' =
                        IF d.corridor_px.t = "null" THEN 0 ELSE d.corridor_px.v
                  /\ outside_fade' = Clamped(d.outside_fade, 8)
                  /\ marker_alpha' = Clamped(d.marker_alpha, 7)
                  /\ IF \/ d.image_id = JNull
                        \/ d.points = <<>>
                        \/ corridor_px' <= 0
                     THEN /\ resp' = Json(400, "missing image_id, points, or corridor_px")
                          /\ pc' = "done"
                     ELSE IF files[d.image_id.v] = NoFile
                     THEN /\ resp' = Json(404, "image not found")
                          /\ pc' = "done"
                     ELSE /\ resp' = Unset
                          /\ pc' = "open"
    /\ UNCHANGED <<files, legacy, buffers>>

\* A merge that unlinks the file it cannot decode, as upload() does.
MergeOpenUnlinking ==
    /\ pc = "open"
    /\ IF files[image_id.v].kind # "image"
       THEN /\ resp' = Json(500, "merge failed")
            /\ pc' = "done"
            /\ base' = base
            /\ files' = [files EXCEPT ![image_id.v] = NoFile]
       ELSE /\ base' = Decode(files[image_id.v])
            /\ files' = files
            /\ IF Len(points) < 2
               THEN /\ resp' = Json(400, "need at least 2 points")
                    /\ pc' = "done"
               ELSE /\ resp' = resp
                    /\ pc' = "mask"
    /\ UNCHANGED <<legacy, data, params,
                   mask2, mask, out, ring2, ring_mask, purple_layer, out_final>>

\* Lines 97-118: the base image is opened and converted (a file whose data
\* is cut short raises here), then the point count is checked.
MergeOpen ==
    /\ pc = "open"
    /\ IF files[image_id.v].kind # "image"
       THEN /\ resp' = Json(500, "merge failed")
            /\ pc' = "done"
            /\ base' = base
       ELSE /\ base' = Decode(files[image_id.v])
            /\ IF Len(points) < 2
               THEN /\ resp' = Json(400, "need at least 2 points")
                    /\ pc' = "done"
               ELSE /\ resp' = resp
                    /\ pc' = "mask"
    /\ UNCHANGED <<files, legacy, data, params,
                   mask2, mask, out, ring2, ring_mask, purple_layer, out_final>>

\* Lines 120-134: the corridor mask, drawn at 2x and resized to native.
MergeMask ==
    /\ pc = "mask"
    /\ mask2' = DrawCorridor(NewImage(base.w * scale, base.h * scale, 0),
                             points, 255, stroke_w2(corridor_px),
                             r_in(corridor_px))
    /\ mask' = Resize(mask2', base.w, base.h)
    /\ pc' = "fade"
    /\ UNCHANGED <<files, legacy, data, params, resp,
                   base, out, ring2, ring_mask, purple_layer, out_final>>

\* Lines 136-140: the base blended toward white, the corridor pasted back.
MergeFade ==
    /\ pc = "fade"
    /\ LET white   == NewImage(base.w, base.h, WHITE)
           outside == Blend(base, white, outside_fade)
       IN  out' = Paste(outside, base, mask)
    /\ pc' = "ring"
    /\ UNCHANGED <<files, legacy, data, params, resp,
                   base, mask2, mask, ring2, ring_mask, purple_layer, out_final>>

\* Lines 142-167: the ring mask (the wider stroke with the corridor carved
\* out of it), resized to native, and the opaque purple composited under it.
MergeRing ==
    /\ pc = "ring"
    /\ ring2' = DrawCorridor(
                    DrawCorridor(NewImage(base.w * scale, base.h * scale, 0),
                                 points, 255, outer_w2(corridor_px),
                                 r_out(corridor_px)),
                    points, 0, stroke_w2(corridor_px), r_in(corridor_px))
    /\ ring_mask' = Resize(ring2', base.w, base.h)
    /\ purple_layer' = Composite(NewImage(base.w, base.h, PURPLE_RGBA_OPAQUE),
                                 NewImage(base.w, base.h, TRANSPARENT),
                                 ring_mask')
    /\ pc' = "markers"
    /\ UNCHANGED <<files, legacy, data, params, resp,
                   base, mask2, mask, out, out_final>>

\* Lines 169-205: the start triangle and the end circle on purple_layer.
MergeMarkers ==
    /\ pc = "markers"
    /\ purple_layer' = DrawMarkers(purple_layer, points, corridor_px, marker_alpha)
    /\ pc' = "composite"
    /\ UNCHANGED <<files, legacy, data, params, resp,
                   base, mask2, mask, out, ring2, ring_mask, out_final>>

\* Lines 207-209: purple_layer composited over the faded image.
MergeComposite ==
    /\ pc = "composite"
    /\ out_final' = AlphaComposite(ConvertRGBA(out), purple_layer)
    /\ pc' = "send"
    /\ UNCHANGED <<files, legacy, data, params, resp,
                   base, mask2, mask, out, ring2, ring_mask, purple_layer>>

\* Lines 211-220: the PNG is written to a buffer and sent.
MergeSend ==
    /\ pc = "send"
    /\ resp' = Png(out_final)
    /\ pc' = "done"
    /\ UNCHANGED <<files, legacy, data, locals>>

\* A failure handler that sends what has been composited so far.
MergeRaiseSendingPartial ==
    /\ pc \in {"mask", "fade", "ring", "markers", "composite", "send"}
    /\ resp' = [status |-> 500, kind |-> "png", error |-> "merge failed",
                body |-> out]
    /\ pc' = "done"
    /\ UNCHANGED <<files, legacy, data, locals>>

\* Lines 222-223: an exception raised inside the try block (by a drawing
\* call, by the allocation of a buffer, by the PNG encoder) is answered 500.
MergeRaise ==
    /\ pc \in {"mask", "fade", "ring", "markers", "composite", "send"}
    /\ resp' = Json(500, "merge failed")
    /\ pc' = "done"
    /\ UNCHANGED <<files, legacy, data, locals>>

\* The handler has returned: its locals are gone, the next request may come.
MergeReturn ==
    /\ pc = "done"
    /\ pc' = "idle"
    /\ data' = Unset
    /\ image_id' = Unset /\ points' = Unset /\ corridor_px' = Unset
    /\ outside_fade' = Unset /\ marker_alpha' = Unset
    /\ base' = Unset /\ mask2' = Unset /\ mask' = Unset /\ out' = Unset
    /\ ring2' = Unset /\ ring_mask' = Unset /\ purple_layer' = Unset
    /\ out_final' = Unset
    /\ resp' = Unset
    /\ UNCHANGED <<files, legacy>>

Next ==
    \/ Upload
    \/ MergeBegin
    \/ MergeOpen
    \/ MergeMask
    \/ MergeFade
    \/ MergeRing
    \/ MergeMarkers
    \/ MergeComposite
    \/ MergeSend
    \/ MergeRaise
    \/ MergeReturn

Spec == Init /\ [][Next]_vars

\* ----------------------------------------------------- claims: vocabulary

\* The handler is answering a merge request (upload() reads no JSON body).
InMerge == data # Unset

\* The merge request has been answered with the PNG.
MergeSucceeded == pc = "done" /\ InMerge /\ resp.kind = "png"

\* The point q is farther than r from the segment from a to b.
FarFromSegment(q, a, b, r) ==
    LET d  == Dot(q, a, b)
        l2 == Len2(a, b)
    IN  IF l2 = 0 \/ d <= 0 THEN Len2(a, q) > r * r
        ELSE IF d >= l2 THEN Len2(b, q) > r * r
        ELSE Cross(q, a, b) * Cross(q, a, b) > r * r * l2

\* The four corners of the unit square of pixel p.
Corners(p) == {<<p[1] + i, p[2] + j>> : i \in {0, 1}, j \in {0, 1}}

\* The whole of pixel p is farther than r from every segment of the path
\* (and so from the round cap about each of its points).
PixelBeyond(p, pts, r) ==
    \A q \in Corners(p) : \A i \in 1 .. Len(pts) - 1 :
        FarFromSegment(q, pts[i], pts[i + 1], r)

\* The whole of pixel p is farther than 1.6 * c + MARKER_STROKE_PX + 2 from
\* the first point, where the start triangle is drawn.
PixelBeyondTriangle(p, pts, c) ==
    \A q \in Corners(p) :
        100 * Len2(pts[1], q)
            > (16 * c + 10 * MARKER_STROKE_PX(c) + 20)
                * (16 * c + 10 * MARKER_STROKE_PX(c) + 20)

\* The output pixel p is lerp(base pixel, white, outside_fade) to within one
\* unit per channel, and opaque.
IsFaded(p) ==
    /\ \A ch \in 1 .. 3 :
          Abs(10 * At(out_final, p)[ch]
                - (10 * At(base, p)[ch]
                     + outside_fade * (255 - At(base, p)[ch]))) < 10
    /\ At(out_final, p)[4] = 255

\* The overlay layer is transparent at p: neither ring nor marker ink.
NoOverlay(p) == At(purple_layer, p)[4] = 0

\* The pixel that holds the midpoint of a 2-point path.
MidPixel(pts) ==
    <<(pts[1][1] + pts[2][1]) \div 2, (pts[1][2] + pts[2][2]) \div 2>>

\* The output at p is the base pixel.
IsBase(p) == \A ch \in 1 .. 3 : At(out_final, p)[ch] = At(base, p)[ch]

\* The path is longer than twice the reach 1.6 * c + MARKER_STROKE_PX + 2 of
\* the markers about its ends.
MarkersClearOfMiddle(pts, c) ==
    100 * Len2(pts[1], pts[2])
        > 4 * (16 * c + 10 * MARKER_STROKE_PX(c) + 20)
            * (16 * c + 10 * MARKER_STROKE_PX(c) + 20)

\* The request body asks for what merge() is to reject: a radius <= 0 (or
\* none), fewer than two points, or a name with no stored file.
RejectableRequest ==
    /\ InMerge
    /\ data # JNull
    /\ \/ data.corridor_px.t = "null"
       \/ data.corridor_px.t = "num" /\ data.corridor_px.v <= 0
       \/ Len(data.points) < 2
       \/ data.image_id # JNull /\ files[data.image_id.v] = NoFile

\* The request is bad input: no JSON object, a corridor_px of the wrong
\* type, a rejectable request, or a stored image that does not decode.
BadInput ==
    /\ InMerge
    /\ \/ data = JNull
       \/ data.image_id = JNull
       \/ data.corridor_px.t = "str"
       \/ RejectableRequest
       \/ files[data.image_id.v].kind = "truncated"

\* No mask, ring or marker has been rasterized.
NothingRasterized ==
    mask2 = Unset /\ ring2 = Unset /\ purple_layer = Unset

\* Raster b, once assigned, has size (w, h).
HasSize(b, w, h) ==
    b # Unset =>
        /\ b.w = w /\ b.h = h
        /\ DOMAIN b.px = 0 .. w - 1
        /\ \A x \in 0 .. w - 1 : DOMAIN b.px[x] = 0 .. h - 1

\* ------------------------------------------------------------------ claims

\* C1, as stated: after a successful merge every pixel wholly farther than
\* corridor_px from the path is the faded base pixel and carries no overlay
\* ink. The ring lies in that region.
C1_OutsideCorridorFaded ==
    MergeSucceeded =>
        \A p \in Pixels(base.w, base.h) :
            PixelBeyond(p, points, corridor_px) => IsFaded(p) /\ NoOverlay(p)

\* C1, amended: after a successful merge every pixel wholly farther than
\* corridor_px + EDGE_THICKNESS_PX + 5 from the path (beyond the ring and
\* the reach of the resampling filter) and farther than
\* 1.6 * corridor_px + MARKER_STROKE_PX + 2 from the first point (beyond the
\* start triangle) is lerp(base, white, outside_fade) to within one unit per
\* channel and carries no ring or marker ink.
C1_BeyondRingFaded ==
    MergeSucceeded =>
        \A p \in Pixels(base.w, base.h) :
            /\ PixelBeyond(p, points,
                           corridor_px + EDGE_THICKNESS_PX(corridor_px) + 5)
            /\ PixelBeyondTriangle(p, points, corridor_px)
            => IsFaded(p) /\ NoOverlay(p)

\* A successful merge with a fade that changes the image and a pixel
\* beyond the ring and the triangle.
C1_Witness ==
    /\ MergeSucceeded
    /\ outside_fade > 0
    /\ \E p \in Pixels(base.w, base.h) :
          /\ PixelBeyond(p, points,
                         corridor_px + EDGE_THICKNESS_PX(corridor_px) + 5)
          /\ PixelBeyondTriangle(p, points, corridor_px)
          /\ At(out_final, p) # ConvertRGBA(base).px[p[1]][p[2]]

\* C2, as stated: after a successful merge of a 2-point path the output
\* pixel at the midpoint of the path is the base pixel. A marker outline
\* through the midpoint, or a corridor too thin for the resampled mask to
\* reach 255 there, changes it.
C2_MidpointIsBase ==
    MergeSucceeded /\ Len(points) = 2
        /\ MidPixel(points) \in Pixels(base.w, base.h)
        => IsBase(MidPixel(points))

\* C2, amended: after a successful merge of a 2-point path with
\* corridor_px >= 6, the output pixel at the midpoint is the base pixel
\* provided the markers are invisible (marker_alpha = 0) or the path is
\* longer than 2 * (1.6 * corridor_px + MARKER_STROKE_PX + 2).
C2_WideCorridorMidpointIsBase ==
    MergeSucceeded /\ Len(points) = 2
        /\ MidPixel(points) \in Pixels(base.w, base.h)
        /\ corridor_px >= 6
        /\ (marker_alpha = 0 \/ MarkersClearOfMiddle(points, corridor_px))
        => IsBase(MidPixel(points))

\* A successful merge of a long 2-point path with visible markers and a
\* fade that would change the midpoint pixel, which is preserved.
C2_Witness ==
    /\ MergeSucceeded /\ Len(points) = 2
    /\ MidPixel(points) \in Pixels(base.w, base.h)
    /\ corridor_px >= 6
    /\ marker_alpha > 0
    /\ outside_fade > 0
    /\ MarkersClearOfMiddle(points, corridor_px)
    /\ IsBase(MidPixel(points))

\* C3, as stated: a merge request with corridor_px <= 0, fewer than two
\* points or a name with no stored file is answered 400 or 404 with
\* nothing rasterized. A file that does not decode, or a corridor_px of the
\* wrong type, is answered 500 first.
C3_Rejected ==
    pc = "done" /\ RejectableRequest =>
        /\ resp.status \in {400, 404}
        /\ resp.body = Unset
        /\ NothingRasterized

\* C4: a merge request ends in one outcome. No response exists while the
\* pipeline runs; the answer is either the PNG of the finished composite,
\* every stage having run, or an error that carries no image.
C4_OneOutcome ==
    InMerge =>
        /\ pc \in {"open", "mask", "fade", "ring", "markers",
                   "composite", "send"} => resp = Unset
        /\ pc = "done" =>
              \/ /\ resp.kind = "png"
                 /\ resp.status = 200
                 /\ base # Unset /\ mask2 # Unset /\ mask # Unset
                 /\ out # Unset /\ ring2 # Unset /\ ring_mask # Unset
                 /\ purple_layer # Unset /\ out_final # Unset
                 /\ resp.body = out_final
              \/ /\ resp.kind # "png"
                 /\ resp.status >= 400
                 /\ resp.body = Unset

\* A merge that failed after the fade stage had run: an error response
\* without image, the partial composite dropped.
C4_Witness ==
    /\ pc = "done" /\ InMerge
    /\ resp.status = 500
    /\ out # Unset
    /\ out_final = Unset
    /\ resp.body = Unset

\* C5, as stated: a merge request that fails on bad input is answered with
\* an input error (4xx), never with an internal failure (5xx).
C5_BadInputIsInputError ==
    pc = "done" /\ BadInput => resp.status \in {400, 404}

\* C6: the base image has the size of the stored file; the supersampled
\* masks are scale times that size in each dimension; the resized masks,
\* the faded image, the overlay, the composite and the image sent have the
\* size of the base image.
C6_BufferSizes ==
    InMerge /\ base # Unset =>
        LET w == files[image_id.v].w
            h == files[image_id.v].h
        IN  /\ HasSize(base, w, h)
            /\ HasSize(mask2, w * scale, h * scale)
            /\ HasSize(ring2, w * scale, h * scale)
            /\ HasSize(mask, w, h)
            /\ HasSize(out, w, h)
            /\ HasSize(ring_mask, w, h)
            /\ HasSize(purple_layer, w, h)
            /\ HasSize(out_final, w, h)
            /\ resp # Unset => HasSize(resp.body, w, h)

\* A successful merge: the image sent has the size of the upload, the
\* masks were drawn at scale times that size.
C6_Witness ==
    /\ MergeSucceeded
    /\ resp.body.w = ImgW /\ resp.body.h = ImgH
    /\ mask2.w = scale * ImgW /\ ring2.h = scale * ImgH
    /\ mask.w = ImgW

\* C7: no step of a merge request changes the upload directory.
C7_FilesUntouched == [][InMerge \/ InMerge' => files' = files]_vars

\* A merge request that failed on a stored file that does not decode: the
\* file is still there.
C7_Witness ==
    /\ pc = "done" /\ InMerge
    /\ resp.status = 500
    /\ base = Unset
    /\ image_id # Unset /\ image_id # JNull
    /\ files[image_id.v].kind = "truncated"

\* C8, as stated: once the markers are drawn, every pixel the ring mask
\* covers fully is still the opaque edge color in the overlay layer. The
\* marker ink replaces the pixels it is drawn on, alpha included.
C8_RingStaysOpaque ==
    pc \in {"composite", "send"} =>
        \A p \in Pixels(base.w, base.h) :
            At(ring_mask, p) = 255 => At(purple_layer, p) = PURPLE_RGBA_OPAQUE

\* C9, as stated: the width handed to the triangle and circle outlines is
\* never less than 1. MARKER_STROKE_PX // 3 is 0 for corridor_px <= 4.
C9_StrokeWidthAtLeastOne ==
    pc \in {"composite", "send"} /\ ~legacy => marker_width(corridor_px) >= 1

\* C10, as stated: the direction (vx, vy) / norm of the start triangle is a
\* unit vector, that is vx^2 + vy^2 = norm^2. For two coincident first
\* points norm is 1.0 and the direction is the zero vector.
C10_UnitDirection ==
    pc \in {"composite", "send"} =>
        LET vx == points[2][1] - points[1][1]
            vy == points[2][2] - points[1][2]
        IN  vx * vx + vy * vy = norm2(vx, vy)

=============================================================================
